---------------------------- MODULE Spec2Model ----------------------------
(***************************************************************************)
(* Weekly Status Auto-Filler (streamlit_weekly_status_app.py).            *)
(*                                                                         *)
(* One press of "Process and Generate Weekly Status" is modelled as a     *)
(* sequence of steps over the uploaded CSV: column mapping, cleaning,     *)
(* the grouping loop (one step per group, with the optional Hugging Face  *)
(* call), sort and preview, workbook preparation, sheet writing and the   *)
(* download.                                                               *)
(*                                                                         *)
(* Representation.  Python strings are sequences of one-character         *)
(* strings.  A number in the CSV is an integer in thousandths (1500 is    *)
(* the text 1.5).  A float is the IEEE double itself, held exactly as a   *)
(* record [m, n]: m thousandths plus n units of 1 / (1000 * 2^62), so     *)
(* that sums and roundings are those of binary arithmetic.  A value       *)
(* rounded to two decimals is an integer in hundredths.  A CSV cell, a    *)
(* dataframe value and a worksheet value are records of one shape,        *)
(* [kind, text, num].  pandas semantics are those of pandas 1.x / 2.x     *)
(* with object-dtype text columns.                                         *)
(***************************************************************************)
EXTENDS Integers, Sequences, FiniteSets, TLC

VARIABLES
    columns,      \* df.columns: the CSV's column names, in file order
    rows,         \* df: the CSV's rows, each a function column name -> cell
    useAi,        \* sidebar checkbox use_ai
    hfKey,        \* sidebar text input hf_key
    template,     \* uploaded_template: [kind, wb]
    colDate,      \* selectbox "Date column"
    colTask,      \* selectbox "Task/Activity column"
    colHours,     \* selectbox "Hours column"
    pc,           \* position of the script run
    dfLocal,      \* df_local after cleaning: rows [date, task, hours]
    pending,      \* groups of df_local.groupby('__task_orig') not yet visited
    results,      \* the list `results`
    warned,       \* tasks for which st.warning reported an AI failure
    preview,      \* what st.dataframe(results_df) showed: [shown, table]
    outWb,        \* out_wb
    download      \* st.download_button: [offered, wb]

vars == << columns, rows, useAi, hfKey, template, colDate, colTask, colHours,
           pc, dfLocal, pending, results, warned, preview, outWb, download >>

inputs == << columns, rows, useAi, hfKey, template >>

---------------------------------------------------------------------------
(* Bounds of the model. *)

\* CSV rows per upload
MaxRows == 3
\* length of the long task name used to stress simple_remark
LongTaskLen == 170
\* length of the long unbroken text returned by the summarizer
LongTextLen == 200
\* rows of the longest one-task CSV, long enough for numpy to sum in lanes
LongGroupRows == 11

(* Program constant. *)
REMARK_MAX_CHARS == 180

---------------------------------------------------------------------------
(* Python str: comparison, lower(), strip(), number formatting. *)

\* the characters used, in code point order
CodePoints ==
    <<" ", "(", ")", ",", "-", ".", "0", "1", "2", "3", "4", "5", "6", "7", "8", "9", "A", "B", "C", "D", "E", "F", "G", "H", "I", "J", "K", "L", "M", "N", "O", "P", "Q", "R", "S", "T", "U", "V", "W", "X", "Y", "Z", "_", "a", "b", "c", "d", "e", "f", "g", "h", "i", "j", "k", "l", "m", "n", "o", "p", "q", "r", "s", "t", "u", "v", "w", "x", "y", "z">>

Ord(c) == CHOOSE i \in 1..Len(CodePoints) : CodePoints[i] = c

UpperAlpha == <<"A", "B", "C", "D", "E", "F", "G", "H", "I", "J", "K", "L", "M", "N", "O", "P", "Q", "R", "S", "T", "U", "V", "W", "X", "Y", "Z">>
LowerAlpha == <<"a", "b", "c", "d", "e", "f", "g", "h", "i", "j", "k", "l", "m", "n", "o", "p", "q", "r", "s", "t", "u", "v", "w", "x", "y", "z">>

LowerChar(c) ==
    IF \E i \in 1..Len(UpperAlpha) : UpperAlpha[i] = c
    THEN LowerAlpha[CHOOSE i \in 1..Len(UpperAlpha) : UpperAlpha[i] = c]
    ELSE c

\* str.lower()
Lower(s) == [i \in 1..Len(s) |-> LowerChar(s[i])]

\* a < b on Python strings (lexicographic by code point)
StrLess(a, b) ==
    \E k \in 1..(Len(b)) :
        /\ \A j \in 1..(k - 1) : j <= Len(a) /\ a[j] = b[j]
        /\ \/ Len(a) = k - 1
           \/ Len(a) >= k /\ Ord(a[k]) < Ord(b[k])

\* str.strip(): leading and trailing blanks removed
Strip(s) ==
    LET keep == {i \in 1..Len(s) : s[i] # " "}
    IN  IF keep = {} THEN <<>>
        ELSE LET lo == CHOOSE i \in keep : \A j \in keep : i <= j
                 hi == CHOOSE i \in keep : \A j \in keep : j <= i
             IN  SubSeq(s, lo, hi)

DigitChars == <<"0", "1", "2", "3", "4", "5", "6", "7", "8", "9">>

RECURSIVE IntChars(_)
\* str(n) for n >= 0
IntChars(n) ==
    IF n < 10 THEN <<DigitChars[n + 1]>>
    ELSE IntChars(n \div 10) \o <<DigitChars[(n % 10) + 1]>>

Max(S) == CHOOSE x \in S : \A y \in S : y <= x

---------------------------------------------------------------------------
(* Python float: IEEE 754 doubles of at least 0.001 and below 512, and    *)
(* 0.0.  The double x is the record [m, n] with                           *)
(*     x = m / 1000 + n / (1000 * 2^62),                                  *)
(* m the decimal it stands near and n its binary error; every double of   *)
(* that range is a multiple of 2^-62, so n is an integer.                 *)

RECURSIVE Pow2(_)
\* 2 ** k
Pow2(k) == IF k = 0 THEN 1 ELSE 2 * Pow2(k - 1)

RECURSIVE Pow2Mod(_, _)
\* (2 ** k) % q
Pow2Mod(k, q) == IF k = 0 THEN 1 % q ELSE (2 * Pow2Mod(k - 1, q)) % q

RECURSIVE BinExp(_)
\* the binary exponent of m / 1000: floor(log2(m / 1000)), m >= 1
BinExp(m) ==
    IF m >= 2000 THEN BinExp(m \div 2) + 1
    ELSE IF m < 1000 THEN BinExp(2 * m) - 1
    ELSE 0

\* m / 1000 is a power of two
IsPow2(m) ==
    LET e == BinExp(m)
    IN  IF e >= 0 THEN m = 1000 * Pow2(e) ELSE m * Pow2(-e) = 1000

\* float("m/1000"): the double nearest to the decimal.  With 52 - e
\* fraction bits, r is the part of m / 1000 below the last bit, in
\* thousandths of that bit (it is never 500: no tie).
Double(m) ==
    IF m = 0 THEN [m |-> 0, n |-> 0]
    ELSE LET e == BinExp(m)
             r == ((m % 1000) * Pow2Mod(52 - e, 1000)) % 1000
             u == Pow2(10 + e)
         IN  [m |-> m, n |-> IF r < 500 THEN 0 - r * u ELSE (1000 - r) * u]

\* a + b on doubles: the exact sum rounded to the 53 bits of its binade,
\* ties to the even mantissa.  g is the last bit of the result in units
\* of 1 / (1000 * 2^62), t the exact sum modulo two such bits.
FloatAdd(a, b) ==
    LET m == a.m + b.m
        n == a.n + b.n
    IN  IF m = 0 THEN [m |-> 0, n |-> 0]
        ELSE LET e == BinExp(m) - (IF IsPow2(m) /\ n < 0 THEN 1 ELSE 0)
                 g == 1000 * Pow2(10 + e)
                 t == (Pow2(10 + e) * (((m % 2000) * Pow2Mod(52 - e, 2000)) % 2000) + n)
                          % (2 * g)
                 rem == t % g
                 up == rem > g \div 2 \/ (rem = g \div 2 /\ t >= g)
             IN  [m |-> m, n |-> n - rem + (IF up THEN g ELSE 0)]

RECURSIVE FloatFold(_, _)
\* res = acc; for x in s: res += x
FloatFold(acc, s) ==
    IF Len(s) = 0 THEN acc
    ELSE FloatAdd(FloatFold(acc, SubSeq(s, 1, Len(s) - 1)), s[Len(s)])

RECURSIVE PairwiseSum(_)
\* ndarray.sum() of a one-dimensional float64 array, numpy's pairwise
\* summation: fewer than 8 values are added in order from 0.0; up to 128
\* values go to 8 accumulators (value i to accumulator i mod 8) that are
\* added as a tree, the values beyond the last full 8 then added in
\* order; a longer array is split in two at a multiple of 8
PairwiseSum(s) ==
    LET n == Len(s)
    IN  IF n < 8 THEN FloatFold(Double(0), s)
        ELSE IF n <= 128
        THEN LET full == n - (n % 8)
                 r == [j \in 1..8 |->
                          FloatFold(s[j], [k \in 1..((full \div 8) - 1) |-> s[8 * k + j]])]
                 res == FloatAdd(FloatAdd(FloatAdd(r[1], r[2]), FloatAdd(r[3], r[4])),
                                 FloatAdd(FloatAdd(r[5], r[6]), FloatAdd(r[7], r[8])))
             IN  FloatFold(res, SubSeq(s, full + 1, n))
        ELSE LET n2 == (n \div 2) - ((n \div 2) % 8)
             IN  FloatAdd(PairwiseSum(SubSeq(s, 1, n2)), PairwiseSum(SubSeq(s, n2 + 1, n)))

\* round(x, 2) of a double x >= 0, in hundredths: the hundredth nearest
\* to the binary value; a 5 in the thousandths place of m goes by the
\* sign of the binary error, and to the even hundredth when x is that
\* decimal exactly
Round2(x) ==
    IF x.m % 10 # 5 THEN (x.m + 5) \div 10
    ELSE LET h == x.m \div 10
         IN  IF x.n < 0 THEN h
             ELSE IF x.n > 0 THEN h + 1
             ELSE h + (h % 2)

\* f"{x:.2f}" for a double x >= 0
Fmt2f(x) ==
    LET h == Round2(x)
    IN  IntChars(h \div 100) \o <<".">> \o
        <<DigitChars[((h \div 10) % 10) + 1], DigitChars[(h % 10) + 1]>>

\* n copies of the character c
Rep(c, n) == [i \in 1..n |-> c]

---------------------------------------------------------------------------
(* Cells: what pd.read_csv puts in the frame, and what a worksheet holds. *)

NA == [kind |-> "na", text |-> <<>>, num |-> 0]
Str(s) == [kind |-> "str", text |-> s, num |-> 0]
Num(m) == [kind |-> "num", text |-> <<>>, num |-> m]
Ts(d) == [kind |-> "ts", text |-> <<>>, num |-> d]

\* the cells of column c, top to bottom
Column(df, c) == [i \in 1..Len(df) |-> df[i][c]]

Range(s) == {s[i] : i \in 1..Len(s)}

\* pd.api.types.is_object_dtype(df[c]): an empty frame read from a header
\* line has object columns; otherwise a column is object when it holds a string
IsObjectDtype(df, c) ==
    \/ Len(df) = 0
    \/ \E i \in 1..Len(df) : df[i][c].kind = "str"

\* pd.api.types.is_numeric_dtype(df[c])
IsNumericDtype(df, c) == ~IsObjectDtype(df, c)

\* "YYYY-MM-DD"
IsIsoDate(s) ==
    /\ Len(s) = 10
    /\ s[5] = "-" /\ s[8] = "-"
    /\ \A i \in {1, 2, 3, 4, 6, 7, 9, 10} : s[i] \in Range(DigitChars)

DigitVal(c) == (CHOOSE i \in 1..10 : DigitChars[i] = c) - 1

\* the calendar day of an ISO date, as yyyymmdd
DateOrdinal(s) ==
    DigitVal(s[1]) * 10000000 + DigitVal(s[2]) * 1000000
    + DigitVal(s[3]) * 100000 + DigitVal(s[4]) * 10000
    + DigitVal(s[6]) * 1000 + DigitVal(s[7]) * 100
    + DigitVal(s[9]) * 10 + DigitVal(s[10])

\* whether pd.to_datetime(col) raises: it does on a string that is no date
DatetimeParses(col) ==
    \A i \in 1..Len(col) : col[i].kind = "str" => IsIsoDate(col[i].text)

\* pd.to_datetime(col): NaT for a missing cell; a number is that many
\* nanoseconds since the epoch, its fraction dropped
ToDatetime(col) ==
    [i \in 1..Len(col) |->
        IF col[i].kind = "str" THEN Ts(DateOrdinal(col[i].text))
        ELSE IF col[i].kind = "num" THEN Ts(col[i].num \div 1000)
        ELSE NA]

\* pd.to_numeric(x, errors='coerce').fillna(0.0) of one cell
ToNumeric(cell) == IF cell.kind = "num" THEN Double(cell.num) ELSE Double(0)

\* str(x) of the double nearest to m / 1000: "2.0", "1.5", "1.004"
FloatRepr(m) ==
    LET f == m % 1000
        frac == IF f = 0 THEN <<"0">>
                ELSE IF f % 100 = 0 THEN IntChars(f \div 100)
                ELSE IF f % 10 = 0
                     THEN <<DigitChars[(f \div 100) + 1]>> \o IntChars((f \div 10) % 10)
                ELSE <<DigitChars[(f \div 100) + 1],
                       DigitChars[((f \div 10) % 10) + 1],
                       DigitChars[(f % 10) + 1]>>
    IN  IntChars(m \div 1000) \o <<".">> \o frac

\* Series.astype(str) of one cell
AsStr(cell) ==
    IF cell.kind = "str" THEN cell.text
    ELSE IF cell.kind = "num" THEN FloatRepr(cell.num)
    ELSE <<"n", "a", "n">>

---------------------------------------------------------------------------
(* Column detection. *)

NoColumn == <<>>

DateCandidates ==
    << <<"d", "a", "t", "e">>, <<"d", "a", "y">>, <<"w", "o", "r", "k", "_", "d", "a", "t", "e">>, <<"a", "c", "t", "i", "v", "i", "t", "y", "_", "d", "a", "t", "e">>, <<"T", "i", "m", "e", "s", "t", "a", "m", "p">>, <<"t", "i", "m", "e", "s", "t", "a", "m", "p">> >>
HoursCandidates == << <<"h", "o", "u", "r", "s">>, <<"t", "i", "m", "e">>, <<"d", "u", "r", "a", "t", "i", "o", "n">>, <<"h", "r", "s">> >>
TaskCandidates ==
    << <<"t", "a", "s", "k">>, <<"a", "c", "t", "i", "v", "i", "t", "y">>, <<"d", "e", "s", "c", "r", "i", "p", "t", "i", "o", "n">>, <<"w", "o", "r", "k">>, <<"t", "i", "t", "l", "e">>, <<"s", "u", "m", "m", "a", "r", "y">> >>

\* the first element of sequence s that satisfies membership in set ok
FirstIn(s, ok) ==
    IF \E i \in 1..Len(s) : s[i] \in ok
    THEN s[CHOOSE i \in 1..Len(s) :
               s[i] \in ok /\ \A j \in 1..(i - 1) : s[j] \notin ok]
    ELSE NoColumn

detect_date_column(cols, df) ==
    LET named == {c \in Range(cols) : Lower(c) \in Range(DateCandidates)}
        parsed == {c \in Range(cols) : DatetimeParses(Column(df, c))}
    IN  IF named # {} THEN FirstIn(cols, named) ELSE FirstIn(cols, parsed)

RECURSIVE SortNums(_)
\* a sequence of integers, ascending
SortNums(s) ==
    IF Len(s) = 0 THEN <<>>
    ELSE LET i == CHOOSE i \in 1..Len(s) : \A j \in 1..Len(s) :
                       s[i] < s[j] \/ (s[i] = s[j] /\ i <= j)
         IN  <<s[i]>> \o SortNums([k \in 1..(Len(s) - 1) |->
                                      IF k < i THEN s[k] ELSE s[k + 1]])

\* df[c].median() < 24, NaN (no value) comparing false; twice the median
\* is compared with twice the limit to stay in the integers
MedianBelow24(df, c) ==
    LET col == Column(df, c)
        idx == {i \in 1..Len(col) : col[i].kind = "num"}
        vals == SortNums([k \in 1..Cardinality(idx) |->
                    col[CHOOSE i \in idx :
                            Cardinality({j \in idx : j < i}) = k - 1].num])
        n == Len(vals)
    IN  /\ n > 0
        /\ IF n % 2 = 1 THEN 2 * vals[(n + 1) \div 2] < 2 * 24 * 1000
           ELSE vals[n \div 2] + vals[(n \div 2) + 1] < 2 * 24 * 1000

detect_hours_column(cols, df) ==
    LET named == {c \in Range(cols) : Lower(c) \in Range(HoursCandidates)}
        numeric == {c \in Range(cols) : IsNumericDtype(df, c)}
        small == {c \in numeric : MedianBelow24(df, c)}
    IN  IF named # {} THEN FirstIn(cols, named)
        ELSE IF small # {} THEN FirstIn(cols, small)
        ELSE FirstIn(cols, numeric)

detect_task_column(cols, df) ==
    LET named == {c \in Range(cols) : Lower(c) \in Range(TaskCandidates)}
        objects == {c \in Range(cols) : IsObjectDtype(df, c)}
    IN  IF named # {} THEN FirstIn(cols, named) ELSE FirstIn(cols, objects)

\* the selectbox default: the detected column, or the first column
SelectDefault(cols, detected) ==
    IF detected \in Range(cols) THEN detected ELSE cols[1]

---------------------------------------------------------------------------
(* Cleaning and grouping. *)

\* lines 167-177: df_local with the parsed date (left as read when
\* pd.to_datetime raises), __task_orig and __hours
Clean(df, cd, ct, ch) ==
    LET raw == Column(df, cd)
        dates == IF DatetimeParses(raw) THEN ToDatetime(raw) ELSE raw
    IN  [i \in 1..Len(df) |->
            [date |-> dates[i], task |-> AsStr(df[i][ct]), hours |-> ToNumeric(df[i][ch])]]

\* Selecting one column twice makes df_local[col] a DataFrame: setting
\* __task_orig from it, or pd.to_numeric of it, raises
SelectionClashes(cd, ct, ch) == cd = ct \/ ct = ch \/ cd = ch

RECURSIVE SortStrs(_)
\* a set of strings as a sequence in ascending str order
SortStrs(S) ==
    IF S = {} THEN <<>>
    ELSE LET m == CHOOSE x \in S : \A y \in S : x = y \/ StrLess(x, y)
         IN  <<m>> \o SortStrs(S \ {m})

\* the keys of df_local.groupby('__task_orig'), which sorts them
GroupKeys(dfl) == SortStrs({dfl[i].task : i \in 1..Len(dfl)})

\* the positions of the rows of one group
GroupRows(dfl, k) == {i \in 1..Len(dfl) : dfl[i].task = k}

\* the elements of a set of row positions, ascending
Ascending(I) ==
    [k \in 1..Cardinality(I) |->
        CHOOSE i \in I : Cardinality({j \in I : j < i}) = k - 1]

\* sub['__hours'].sum(): the floats of the group, in row order, summed as
\* numpy sums an array
SumHours(dfl, I) ==
    PairwiseSum([k \in 1..Cardinality(I) |-> dfl[Ascending(I)[k]].hours])

\* sub[col_date].nunique(): distinct values, missing ones not counted
NUnique(dfl, I) == Cardinality({dfl[i].date : i \in {j \in I : dfl[j].date.kind # "na"}})

---------------------------------------------------------------------------
(* Remarks. *)

simple_remark(task_name, days_count, total_hours) ==
    IF days_count <= 1
    THEN <<"W", "o", "r", "k", "e", "d", " ", "o", "n", " ">> \o task_name \o <<" ", "f", "o", "r", " ">> \o Fmt2f(total_hours) \o <<" ", "h", "o", "u", "r", "s", ".">>
    ELSE <<"W", "o", "r", "k", "e", "d", " ", "o", "n", " ">> \o task_name \o <<" ", "a", "c", "r", "o", "s", "s", " ">> \o IntChars(days_count)
         \o <<" ", "d", "a", "y", "s", ",", " ", "t", "o", "t", "a", "l", "l", "i", "n", "g", " ">> \o Fmt2f(total_hours) \o <<" ", "h", "o", "u", "r", "s", ".">>

\* What the Inference API call did: requests.post raised (timeout,
\* connection error), or answered with a status, a body that is an error
\* object or not, and a text.
HfResponse(raised, status, error, text) ==
    [raised |-> raised, status |-> status, error |-> error, text |-> text]

\* hf_summarize raises
HfRaises(resp, hf_api_key) ==
    \/ hf_api_key = <<>>
    \/ resp.raised
    \/ resp.status # 200
    \/ resp.error

\* hf_summarize returns txt.strip()
hf_summarize(resp) == Strip(resp.text)

\* s.rsplit(' ', 1)[0]
RSplitHead(s) ==
    LET sp == {i \in 1..Len(s) : s[i] = " "}
    IN  IF sp = {} THEN s
        ELSE SubSeq(s, 1, (CHOOSE i \in sp : \A j \in sp : j <= i) - 1)

\* lines 207-208
Shorten(remark) ==
    IF Len(remark) > REMARK_MAX_CHARS
    THEN RSplitHead(SubSeq(remark, 1, REMARK_MAX_CHARS)) \o <<".", ".", ".">>
    ELSE remark

\* a slip: no fallback, the remark left empty when the call fails
MakeRemarkNoFallback(ai, key, resp, task_name, days_count, total_hours) ==
    IF ai /\ key # <<>>
    THEN IF HfRaises(resp, key) THEN <<>> ELSE Shorten(hf_summarize(resp))
    ELSE simple_remark(task_name, days_count, total_hours)

\* lines 202-213: the remark of one group, given what the API call did
MakeRemark(ai, key, resp, task_name, days_count, total_hours) ==
    IF ai /\ key # <<>>
    THEN IF HfRaises(resp, key)
         THEN simple_remark(task_name, days_count, total_hours)
         ELSE Shorten(hf_summarize(resp))
    ELSE simple_remark(task_name, days_count, total_hours)

\* lines 215-220
ResultRow(task_name, total_hours, remark, days_count) ==
    [task |-> task_name, hours |-> Round2(total_hours), remark |-> remark,
     days |-> days_count]

RECURSIVE SortByHoursDesc(_)
\* sort_values('Hours', ascending=False); equal Hours keep their order
\* (numpy sorts arrays this short by insertion)
SortByHoursDesc(rs) ==
    IF Len(rs) = 0 THEN <<>>
    ELSE LET i == CHOOSE i \in 1..Len(rs) : \A j \in 1..Len(rs) :
                       rs[i].hours > rs[j].hours \/ (rs[i].hours = rs[j].hours /\ i <= j)
         IN  <<rs[i]>> \o SortByHoursDesc([k \in 1..(Len(rs) - 1) |->
                                             IF k < i THEN rs[k] ELSE rs[k + 1]])

---------------------------------------------------------------------------
(* Workbooks: a function sheet name -> sheet, a sheet a function          *)
(* <<row, column>> -> value.                                               *)

None == [kind |-> "none", text |-> <<>>, num |-> 0]
IntCell(n) == [kind |-> "int", text |-> <<>>, num |-> n]
HoursCell(h) == [kind |-> "float", text |-> <<>>, num |-> h]
\* start_date, today's date and the period text, not modelled further
Meta(label) == [kind |-> "meta", text |-> label, num |-> 0]

EmptySheet == [c \in {} |-> None]
NoSheets == [s \in {} |-> EmptySheet]

\* cell.value at a coordinate
CellValue(sheet, c) == IF c \in DOMAIN sheet THEN sheet[c] ELSE None

\* ws.max_row, ws.max_column
MaxRow(sheet) == IF DOMAIN sheet = {} THEN 1 ELSE Max({c[1] : c \in DOMAIN sheet})
MaxColumn(sheet) == IF DOMAIN sheet = {} THEN 1 ELSE Max({c[2] : c \in DOMAIN sheet})

\* lines 243-245: every cell of the used range set to None
ClearSheet(sheet) ==
    [c \in (1..MaxRow(sheet)) \X (1..MaxColumn(sheet)) |-> None]

\* openpyxl's Workbook()
NewWorkbook == [s \in {"Sheet"} |-> EmptySheet]

\* out_wb.remove(sheet)
RemoveSheet(wb, name) == [s \in (DOMAIN wb) \ {name} |-> wb[s]]

\* lines 228-237; the load_workbook failure is handled by the caller
OpenWorkbook(tpl) ==
    IF tpl.kind = "ok" THEN tpl.wb
    ELSE IF "Sheet" \in DOMAIN NewWorkbook /\ Cardinality(DOMAIN NewWorkbook) = 1
         THEN RemoveSheet(NewWorkbook, "Sheet")
         ELSE NewWorkbook

Headers == << <<"T", "a", "s", "k", " ", "(", "o", "r", "i", "g", "i", "n", "a", "l", ")">>, <<"H", "o", "u", "r", "s">>, <<"R", "e", "m", "a", "r", "k">>, <<"D", "a", "y", "s", " ", "C", "o", "v", "e", "r", "e", "d">> >>

\* lines 249-268: the cells the run writes
Written(table) ==
    LET meta == (<<1, 1>> :> Str(<<"S", "t", "a", "r", "t", " ", "D", "a", "t", "e">>)) @@ (<<1, 2>> :> Meta(<<"s", "t", "a", "r", "t", "_", "d", "a", "t", "e">>))
             @@ (<<2, 1>> :> Str(<<"S", "t", "a", "t", "u", "s", " ", "D", "a", "t", "e">>)) @@ (<<2, 2>> :> Meta(<<"t", "o", "d", "a", "y">>))
             @@ (<<3, 1>> :> Str(<<"P", "e", "r", "i", "o", "d", " ", "C", "o", "v", "e", "r", "e", "d">>)) @@ (<<3, 2>> :> Meta(<<"p", "e", "r", "i", "o", "d">>))
        head == [c \in {5} \X (1..4) |-> Str(Headers[c[2]])]
        body == [c \in (6..(5 + Len(table))) \X (1..4) |->
                    LET r == table[c[1] - 5]
                    IN  CASE c[2] = 1 -> Str(r.task)
                          [] c[2] = 2 -> HoursCell(r.hours)
                          [] c[2] = 3 -> Str(r.remark)
                          [] OTHER -> IntCell(r.days)]
    IN  meta @@ head @@ body

\* lines 239-268: the AutoFilled sheet cleared or created, then written
FillWorkbook(wb, table) ==
    LET name == "AutoFilled"
        ws == IF name \in DOMAIN wb THEN ClearSheet(wb[name]) ELSE EmptySheet
    IN  [s \in (DOMAIN wb) \cup {name} |->
            IF s = name THEN Written(table) @@ ws ELSE wb[s]]

---------------------------------------------------------------------------
(* The inputs drawn: CSV layouts, cells, API answers, templates. *)

ColDate == <<"D", "a", "t", "e">>
ColDescription == <<"D", "e", "s", "c", "r", "i", "p", "t", "i", "o", "n">>
ColActivity == <<"A", "c", "t", "i", "v", "i", "t", "y">>
ColHours == <<"H", "o", "u", "r", "s">>
ColTaskName == <<"T", "a", "s", "k">>
ColProject == <<"P", "r", "o", "j", "e", "c", "t">>
ColSpent == <<"S", "p", "e", "n", "t", " ", "H", "o", "u", "r", "s">>

\* the column lines of the CSVs drawn
LayoutPlain == << ColDate, ColTaskName, ColHours >>
LayoutDescFirst == << ColDate, ColDescription, ColActivity, ColHours >>
LayoutActFirst == << ColDate, ColActivity, ColDescription, ColHours >>
LayoutUnnamed == << ColProject, ColDate, ColSpent >>

Day1 == Str(<<"2", "0", "2", "4", "-", "0", "1", "-", "0", "1">>)
Day2 == Str(<<"2", "0", "2", "4", "-", "0", "1", "-", "0", "2">>)
NotADate == Str(<<"t", "b", "d">>)

TaskA == <<"A">>
TaskB == <<"B">>
TaskTotal == <<"T", "o", "t", "a", "l">>
TaskWeeklyTotal == <<"W", "e", "e", "k", "l", "y", " ", "T", "o", "t", "a", "l">>
TaskLong == Rep("x", LongTaskLen)

\* every CSV of at most MaxRows rows over the columns cols, the cells of
\* column c drawn from dom[c]
CSVs(cols, dom) ==
    LET cells == UNION {dom[c] : c \in Range(cols)}
        rowSet == {r \in [Range(cols) -> cells] : \A c \in Range(cols) : r[c] \in dom[c]}
    IN  UNION {[1..n -> rowSet] : n \in 0..MaxRows}

\* CSVs of 8 to LongGroupRows rows of one task on one day, every row 0.1
\* hours but the last, which is 0.1 or 0.135
LongCSVs ==
    { [i \in 1..n |->
          (ColDate :> Day1) @@ (ColTaskName :> Str(TaskA))
          @@ (ColHours :> Num(IF i = n THEN last ELSE 100))] :
      n \in 8..LongGroupRows, last \in {100, 135} }

\* what requests.post may do on one call: three failures, a short answer
\* padded with blanks, and two answers longer than REMARK_MAX_CHARS, one
\* with its last blank at the cut and one without a blank
HfResponses ==
    { HfResponse(TRUE, 0, FALSE, <<>>),
      HfResponse(FALSE, 503, FALSE, <<"S", "e", "r", "v", "i", "c", "e", " ", "U", "n", "a", "v", "a", "i", "l", "a", "b", "l", "e">>),
      HfResponse(FALSE, 200, TRUE, <<"M", "o", "d", "e", "l", " ", "i", "s", " ", "l", "o", "a", "d", "i", "n", "g">>),
      HfResponse(FALSE, 200, FALSE, <<" ", "W", "e", "e", "k", "l", "y", " ", "s", "y", "n", "c", " ", "a", "n", "d", " ", "p", "l", "a", "n", "n", "i", "n", "g", ".", " ">>),
      HfResponse(FALSE, 200, FALSE, Rep("x", REMARK_MAX_CHARS - 1) \o <<" ">> \o Rep("x", 20)),
      HfResponse(FALSE, 200, FALSE, Rep("x", LongTextLen)) }

NoTemplate == [kind |-> "none", wb |-> NoSheets]
\* a file load_workbook cannot read
BadTemplate == [kind |-> "bad", wb |-> NoSheets]
GoodTemplate(wb) == [kind |-> "ok", wb |-> wb]

Old == Str(<<"o", "l", "d">>)

\* a status sheet with cells inside and outside the rows the run writes
StatusSheet == (<<1, 1>> :> Old) @@ (<<6, 1>> :> Old) @@ (<<11, 3>> :> Old)

TemplatePlain == GoodTemplate([s \in {"Status"} |-> StatusSheet])
TemplateWithAutoFilled ==
    GoodTemplate([s \in {"Status", "AutoFilled"} |-> StatusSheet])
TemplateEmptyAutoFilled ==
    GoodTemplate([s \in {"Status", "AutoFilled"} |->
                     IF s = "Status" THEN StatusSheet ELSE EmptySheet])

---------------------------------------------------------------------------
(* The run. *)

\* lines 142-162: the CSV is loaded, the columns detected, the selectboxes
\* shown with their defaults
InitRun(ais, keys, tpls) ==
    /\ useAi \in ais
    /\ hfKey \in keys
    /\ template \in tpls
    /\ colDate = SelectDefault(columns, detect_date_column(columns, rows))
    /\ colTask = SelectDefault(columns, detect_task_column(columns, rows))
    /\ colHours = SelectDefault(columns, detect_hours_column(columns, rows))
    /\ pc = "mapping"
    /\ dfLocal = <<>>
    /\ pending = <<>>
    /\ results = <<>>
    /\ warned = {}
    /\ preview = [shown |-> FALSE, table |-> <<>>]
    /\ outWb = NoSheets
    /\ download = [offered |-> FALSE, wb |-> NoSheets]

\* a run over a CSV of at most MaxRows rows
InitWith(layouts, dom, ais, keys, tpls) ==
    /\ columns \in layouts
    /\ rows \in CSVs(columns, dom)
    /\ InitRun(ais, keys, tpls)

\* a run over a long one-task CSV
InitLong(ais, keys, tpls) ==
    /\ columns = LayoutPlain
    /\ rows \in LongCSVs
    /\ InitRun(ais, keys, tpls)

\* the user picks another column in the "Date column" box
SelectDate ==
    /\ pc = "mapping"
    /\ \E c \in Range(columns) : c # colDate /\ colDate' = c
    /\ UNCHANGED << inputs, colTask, colHours, pc, dfLocal, pending, results,
                    warned, preview, outWb, download >>

\* the user picks another column in the "Task/Activity column" box
SelectTask ==
    /\ pc = "mapping"
    /\ \E c \in Range(columns) : c # colTask /\ colTask' = c
    /\ UNCHANGED << inputs, colDate, colHours, pc, dfLocal, pending, results,
                    warned, preview, outWb, download >>

\* the user picks another column in the "Hours column" box
SelectHours ==
    /\ pc = "mapping"
    /\ \E c \in Range(columns) : c # colHours /\ colHours' = c
    /\ UNCHANGED << inputs, colDate, colTask, pc, dfLocal, pending, results,
                    warned, preview, outWb, download >>

\* lines 164-196: the button is pressed; the frame is cleaned and grouped
Process ==
    /\ pc = "mapping"
    /\ IF SelectionClashes(colDate, colTask, colHours)
       THEN /\ pc' = "crashed"
            /\ UNCHANGED << dfLocal, pending >>
       ELSE /\ dfLocal' = Clean(rows, colDate, colTask, colHours)
            /\ pending' = GroupKeys(dfLocal')
            /\ pc' = "grouping"
    /\ UNCHANGED << inputs, colDate, colTask, colHours, results, warned,
                    preview, outWb, download >>

\* lines 197-220: one pass of the loop over the groups
GroupStep ==
    /\ pc = "grouping"
    /\ pending # <<>>
    /\ LET task_name == Head(pending)
           sub == GroupRows(dfLocal, task_name)
           total_hours == SumHours(dfLocal, sub)
           days_count == NUnique(dfLocal, sub)
       IN  \E resp \in (IF useAi /\ hfKey # <<>> THEN HfResponses
                        ELSE {HfResponse(FALSE, 0, FALSE, <<>>)}) :
             /\ results' = Append(results,
                    ResultRow(task_name, total_hours,
                              MakeRemark(useAi, hfKey, resp, task_name, days_count, total_hours),
                              days_count))
             /\ warned' = IF useAi /\ hfKey # <<>> /\ HfRaises(resp, hfKey)
                          THEN warned \cup {task_name}
                          ELSE warned
    /\ pending' = Tail(pending)
    /\ UNCHANGED << inputs, colDate, colTask, colHours, pc, dfLocal, preview,
                    outWb, download >>

\* lines 222-225: the rows sorted and shown; with no row at all
\* sort_values('Hours') raises KeyError
Preview ==
    /\ pc = "grouping"
    /\ pending = <<>>
    /\ IF results = <<>>
       THEN /\ pc' = "crashed"
            /\ UNCHANGED preview
       ELSE /\ preview' = [shown |-> TRUE, table |-> SortByHoursDesc(results)]
            /\ pc' = "previewed"
    /\ UNCHANGED << inputs, colDate, colTask, colHours, dfLocal, pending,
                    results, warned, outWb, download >>

\* a slip: the template loaded as soon as the loop ends, before the preview
PrepareWorkbookBeforePreview ==
    /\ pc = "grouping"
    /\ pending = <<>>
    /\ results # <<>>
    /\ IF template.kind = "bad"
       THEN /\ pc' = "template_error"
            /\ UNCHANGED outWb
       ELSE /\ outWb' = OpenWorkbook(template)
            /\ pc' = "workbook"
    /\ UNCHANGED << inputs, colDate, colTask, colHours, dfLocal, pending,
                    results, warned, preview, download >>

\* lines 227-237: the template loaded, or a workbook created
PrepareWorkbook ==
    /\ pc = "previewed"
    /\ IF template.kind = "bad"
       THEN /\ pc' = "template_error"
            /\ UNCHANGED outWb
       ELSE /\ outWb' = OpenWorkbook(template)
            /\ pc' = "workbook"
    /\ UNCHANGED << inputs, colDate, colTask, colHours, dfLocal, pending,
                    results, warned, preview, download >>

\* lines 239-280: the sheet written, the workbook saved and offered
WriteAndOffer ==
    /\ pc = "workbook"
    /\ outWb' = FillWorkbook(outWb, SortByHoursDesc(results))
    /\ download' = [offered |-> TRUE, wb |-> outWb']
    /\ pc' = "done"
    /\ UNCHANGED << inputs, colDate, colTask, colHours, dfLocal, pending,
                    results, warned, preview >>

Next ==
    \/ SelectDate
    \/ SelectTask
    \/ SelectHours
    \/ Process
    \/ GroupStep
    \/ Preview
    \/ PrepareWorkbook
    \/ WriteAndOffer

---------------------------------------------------------------------------
(* Specifications: one run, over different families of inputs. *)

\* tasks with different totals, and the names of export footers
DomTotals ==
    (ColDate :> {Day1})
    @@ (ColTaskName :> {Str(TaskB), Str(TaskA), Str(TaskTotal), Str(TaskWeeklyTotal)})
    @@ (ColHours :> {Num(1004), Num(2000)})

Init == InitWith({LayoutPlain}, DomTotals, {FALSE}, {<<>>}, {NoTemplate})

Spec == Init /\ [][Next]_vars

\* dates repeated; hours that tie in the thousandths place, and hours
\* that are not numeric
DomAgg ==
    (ColDate :> {Day1, Day2})
    @@ (ColTaskName :> {Str(TaskA), Str(TaskB)})
    @@ (ColHours :> {Num(1005), Str(<<"a", "b", "c">>)})

\* dates missing and unparseable; hours that differ within one nanosecond
\* when read as a date
DomAggMissing ==
    (ColDate :> {Day1, NA, NotADate})
    @@ (ColTaskName :> {Str(TaskA)})
    @@ (ColHours :> {Num(1004), Num(1500)})

InitAgg ==
    \/ InitWith({LayoutPlain}, DomAgg, {FALSE}, {<<>>}, {NoTemplate})
    \/ InitWith({LayoutPlain}, DomAggMissing, {FALSE}, {<<>>}, {NoTemplate})
    \/ InitLong({FALSE}, {<<>>}, {NoTemplate})

SpecAgg == InitAgg /\ [][Next]_vars

\* a description and an activity column in either order, or neither
DomComm ==
    (ColDate :> {Day1})
    @@ (ColDescription :> {Str(TaskA), Str(TaskB)})
    @@ (ColProject :> {Str(TaskA), Str(TaskB)})
    @@ (ColActivity :> {Str(<<"D", "e", "v">>), Str(<<"C", "o", "m", "m", "u", "n", "i", "c", "a", "t", "i", "o", "n">>), Str(<<"c", "o", "m", "m", "u", "n", "i", "c", "a", "t", "i", "o", "n">>)})
    @@ (ColHours :> {Num(1500)})
    @@ (ColSpent :> {Num(1500), Num(30000)})

InitComm ==
    InitWith({LayoutDescFirst, LayoutActFirst, LayoutUnnamed}, DomComm,
             {FALSE}, {<<>>}, {NoTemplate})

SpecComm == InitComm /\ [][Next]_vars

\* the summarizer switched on or off, with and without a key
DomRemark ==
    (ColDate :> {Day1, Day2})
    @@ (ColTaskName :> {Str(TaskA), Str(TaskLong)})
    @@ (ColHours :> {Num(1500)})

InitRemark ==
    \/ InitWith({LayoutPlain}, DomRemark, BOOLEAN, {<<>>, <<"h", "f", "_", "k", "e", "y">>}, {NoTemplate})
    \/ InitLong(BOOLEAN, {<<>>, <<"h", "f", "_", "k", "e", "y">>}, {NoTemplate})

SpecRemark == InitRemark /\ [][Next]_vars

\* no template, an unreadable one, and templates with and without the sheet
DomTemplate ==
    (ColDate :> {Day1})
    @@ (ColTaskName :> {Str(TaskA), Str(TaskB)})
    @@ (ColHours :> {Num(1500), Num(2000)})

InitTemplate ==
    InitWith({LayoutPlain}, DomTemplate, {FALSE}, {<<>>},
             {NoTemplate, BadTemplate, TemplatePlain, TemplateWithAutoFilled,
              TemplateEmptyAutoFilled})

SpecTemplate == InitTemplate /\ [][Next]_vars

---------------------------------------------------------------------------
(* The input as the claims read it, independently of the cleaning code.   *)

\* the task string of input row i in the selected task column, as
\* astype(str) renders the cell
InputTask(i) == AsStr(rows[i][colTask])

\* the hours of input row i in thousandths, a non-numeric value counting 0
InputHours(i) ==
    IF rows[i][colHours].kind = "num" THEN rows[i][colHours].num ELSE 0

InputRowsOf(t) == {i \in 1..Len(rows) : InputTask(i) = t}

RECURSIVE SumInput(_)
SumInput(I) ==
    IF I = {} THEN 0
    ELSE LET i == Max(I) IN InputHours(i) + SumInput(I \ {i})

\* the same hours as an array of floats in row order, summed as numpy
\* sums it
FloatSumInput(I) ==
    PairwiseSum([k \in 1..Cardinality(I) |-> Double(InputHours(Ascending(I)[k]))])

\* the distinct values of the selected date column, as read, among the
\* input rows I, missing ones left out
InputDateValues(I) == {rows[i][colDate] : i \in {j \in I : rows[j][colDate].kind # "na"}}

\* the selected date column: converted by pd.to_datetime when the whole
\* column converts, as read otherwise
InputDateColumn ==
    LET raw == Column(rows, colDate)
    IN  IF DatetimeParses(raw) THEN ToDatetime(raw) ELSE raw

\* the distinct date values among the input rows I, missing ones left out
InputDates(I) == {InputDateColumn[i] : i \in {j \in I : InputDateColumn[j].kind # "na"}}

RECURSIVE SumTableHours(_, _)
\* the Hours (hundredths) of the table rows at the positions K, summed
SumTableHours(table, K) ==
    IF K = {} THEN 0
    ELSE LET k == Max(K) IN table[k].hours + SumTableHours(table, K \ {k})

\* the positions of the table rows titled t
Titled(table, t) == {k \in 1..Len(table) : table[k].task = t}

\* the task column of the AutoFilled sheet of a workbook, rows 6 and below
SheetTasks(wb, n) == [k \in 1..n |-> CellValue(wb["AutoFilled"], <<5 + k, 1>>).text]

---------------------------------------------------------------------------
(* C1.  Claim: the output contains exactly one summary row titled         *)
(* "Weekly Total", and its total equals the sum of the totals of all      *)
(* other summary rows.                                                     *)
C1_WeeklyTotalRow ==
    preview.shown =>
        LET wt == Titled(preview.table, TaskWeeklyTotal)
        IN  /\ Cardinality(wt) = 1
            /\ \A k \in wt :
                   preview.table[k].hours =
                       SumTableHours(preview.table, (1..Len(preview.table)) \ wt)

(* C2.  Claim: for every input the run yields a result that has exactly   *)
(* one row per distinct task string of the selected task column, its      *)
(* Hours the sum of the hours of the input rows carrying that string      *)
(* (non-numeric hours counting 0), its Days Covered the number of         *)
(* distinct date values among them; every input row contributes to        *)
(* exactly one result row.                                                 *)
C2_HoursAreExactSums ==
    /\ pc # "crashed"
    /\ preview.shown =>
        /\ \A i \in 1..Len(rows) : Cardinality(Titled(preview.table, InputTask(i))) = 1
        /\ \A k \in 1..Len(preview.table) :
               LET r == preview.table[k]
                   I == InputRowsOf(r.task)
               IN  /\ I # {}
                   /\ 10 * r.hours = SumInput(I)
                   /\ r.days = Cardinality(InputDateValues(I))

(* C3.  Claim: entries whose activity is "communication" (in any case)    *)
(* collapse into exactly one summary row titled "Communication", and none *)
(* of their descriptions appears as a summary row of its own.             *)
C3_CommunicationCollapses ==
    (preview.shown /\ ColActivity \in Range(columns)) =>
        LET comm == {i \in 1..Len(rows) :
                        Lower(rows[i][ColActivity].text) = <<"c", "o", "m", "m", "u", "n", "i", "c", "a", "t", "i", "o", "n">>}
            own == {rows[i][ColDescription].text : i \in comm}
                   \ {rows[i][ColDescription].text : i \in (1..Len(rows)) \ comm}
        IN  comm # {} =>
                /\ Cardinality(Titled(preview.table, <<"C", "o", "m", "m", "u", "n", "i", "c", "a", "t", "i", "o", "n">>)) = 1
                /\ \A d \in own : Titled(preview.table, d) = {}

(* C4.  Claim: an input row whose description is "Total" or "Weekly       *)
(* Total" (or empty) never appears in the output: no summary row is       *)
(* derived from it and its duration is added to no total.                  *)
C4_FooterRowsDropped ==
    preview.shown =>
        LET footer == {TaskTotal, TaskWeeklyTotal}
            kept == {i \in 1..Len(rows) : InputTask(i) \notin footer}
            n == Len(preview.table)
        IN  /\ \A k \in 1..n : preview.table[k].task \notin footer
            /\ 10 * SumTableHours(preview.table, 1..n) - SumInput(kept) \in (-5 * n)..(5 * n)

(* C5.  Claim: when no column of the input matches the task / activity /  *)
(* description field, report generation ends in an input-validation       *)
(* error before any grouping and produces no preview and no spreadsheet.  *)
C5_MissingColumnRejected ==
    (\A c \in Range(columns) : Lower(c) \notin Range(TaskCandidates)) =>
        /\ results = <<>>
        /\ ~preview.shown
        /\ ~download.offered

(* C6.  A failure of the remark service for one group never aborts the    *)
(* run: the group gets a row whose remark is simple_remark(task, days,    *)
(* hours), every later group is processed, and the preview and the        *)
(* spreadsheet are produced.                                               *)
C6_RemarkFailureRecovered ==
    warned # {} =>
        LET keys == {InputTask(i) : i \in 1..Len(rows)}
            table == IF preview.shown THEN preview.table ELSE results
        IN  /\ pc \in {"grouping", "previewed", "workbook", "done"}
            /\ (pc = "grouping" /\ pending = <<>>) => results # <<>>
            /\ \A t \in warned :
                   \E k \in 1..Len(table) :
                       /\ table[k].task = t
                       /\ table[k].remark =
                              simple_remark(t, Cardinality(InputDates(InputRowsOf(t))),
                                            FloatSumInput(InputRowsOf(t)))
            /\ Len(results) + Len(pending) = Cardinality(keys)
            /\ pc # "grouping" => preview.shown /\ Len(preview.table) = Cardinality(keys)
            /\ pc = "done" =>
                   /\ download.offered
                   /\ \A t \in keys :
                          \E k \in 1..Cardinality(keys) :
                              SheetTasks(download.wb, Cardinality(keys))[k] = t

\* a finished run in which the call failed for the first group, succeeded
\* for the second, and both are in the downloaded sheet
C6_Witness ==
    /\ pc = "done"
    /\ Len(results) = 2
    /\ results[1].task \in warned
    /\ results[2].task \notin warned
    /\ download.offered
    /\ Len(SheetTasks(download.wb, 2)[2]) > 0

(* C7.  Claim: every cell of every sheet the template already contains    *)
(* has the same value in the output workbook as in the template, also     *)
(* when the template has a sheet named 'AutoFilled'.                       *)
C7_TemplateCellsUnchanged ==
    (download.offered /\ template.kind = "ok") =>
        \A s \in DOMAIN template.wb :
            /\ s \in DOMAIN download.wb
            /\ \A c \in DOMAIN template.wb[s] :
                   CellValue(download.wb[s], c) = template.wb[s][c]

(* C8.  When the template cannot be loaded only the export fails: the     *)
(* preview has been shown with every summary row before the failure, and  *)
(* no download is offered.                                                 *)
C8_PreviewBeforeTemplateError ==
    /\ pc = "template_error" =>
           /\ template.kind = "bad"
           /\ preview.shown
           /\ \A i \in 1..Len(rows) :
                  Cardinality(Titled(preview.table, InputTask(i))) = 1
           /\ \A k \in 1..Len(preview.table) : InputRowsOf(preview.table[k].task) # {}
    /\ template.kind = "bad" => ~download.offered /\ pc # "done" /\ outWb = NoSheets

\* the load has failed after a preview of two summary rows
C8_Witness ==
    /\ pc = "template_error"
    /\ preview.shown
    /\ Len(preview.table) = 2
    /\ ~download.offered

(* C9.  Claim: the summary rows are emitted, in the preview and in the    *)
(* spreadsheet, in the order in which their descriptions first occur in   *)
(* the input; no sort by total is applied.                                 *)
C9_FirstSeenOrder ==
    LET first(t) == CHOOSE i \in InputRowsOf(t) : \A j \in InputRowsOf(t) : i <= j
        n == Len(preview.table)
    IN  /\ preview.shown =>
               \A k \in 1..n : \A l \in 1..n :
                   k < l => first(preview.table[k].task) < first(preview.table[l].task)
        /\ download.offered =>
               \A k \in 1..n : \A l \in 1..n :
                   k < l => first(SheetTasks(download.wb, n)[k])
                                < first(SheetTasks(download.wb, n)[l])

(* C10.  Claim: every remark placed in a result row is at most            *)
(* REMARK_MAX_CHARS characters long, from the summarizer or from          *)
(* simple_remark.                                                          *)
C10_RemarkWithinLimit ==
    \A k \in 1..Len(results) : Len(results[k].remark) <= REMARK_MAX_CHARS

=============================================================================
